---- MODULE Spec2Model ----
(***************************************************************************)
(* Model of app.js: marking cities on an SVG map.                          *)
(*                                                                         *)
(* Strings are sequences of one-character strings.  Surface coordinates    *)
(* are integers in thousandths of an SVG user unit, geographic coordinates *)
(* integers in thousandths of a degree; sines and cosines of the twelve    *)
(* ring angles are given in thousandths.                                   *)
(***************************************************************************)
EXTENDS Integers, Sequences, FiniteSets, TLC

(***************************************************************************)
(* Bounds of the model.                                                    *)
(***************************************************************************)
\* longest list of comma separated tokens in the query string the page is opened with
MaxTokens == 3

\* largest coordinate, width and height of the boxes overlap is tried on
MaxCoord == 2

(***************************************************************************)
(* Parameters (app.js lines 5-8).                                          *)
(***************************************************************************)
MAP_PAD_X == 0
MAP_PAD_Y == 0
MAP_HEIGHT == 800
MAP_WIDTH == 600
\* 5.866 - 0.12, in thousandths of a degree
MAP_MIN_LON == 5746
\* 15.042 + 0.32
MAP_MAX_LON == 15362
\* 47.270 - 0.04
MAP_MIN_LAT == 47230
\* 55.059 + 0.16
MAP_MAX_LAT == 55219

(***************************************************************************)
(* Strings.                                                                *)
(***************************************************************************)
\* UTF-16 code unit of the characters the model uses; JavaScript's < on
\* strings and Array.prototype.sort's default order compare these.
CharCode(c) ==
  CASE c = "%" -> 37
    [] c = "," -> 44
    [] c = "2" -> 50
    [] c = "5" -> 53
    [] c = "?" -> 63
    [] c = "A" -> 65
    [] c = "C" -> 67
    [] c = "H" -> 72
    [] c = "K" -> 75
    [] c = "N" -> 78
    [] c = "U" -> 85
    [] c = "e" -> 101
    [] c = "f" -> 102
    [] c = "i" -> 105
    [] c = "l" -> 108
    [] c = "m" -> 109
    [] c = "o" -> 111
    [] c = "u" -> 117
    [] c = "x" -> 120
    [] c = "z" -> 122

RECURSIVE StrLess(_, _)
\* s < t for strings: lexicographic on code units, a proper prefix is smaller
StrLess(s, t) ==
  IF t = <<>> THEN FALSE
  ELSE IF s = <<>> THEN TRUE
  ELSE IF CharCode(Head(s)) # CharCode(Head(t))
       THEN CharCode(Head(s)) < CharCode(Head(t))
       ELSE StrLess(Tail(s), Tail(t))

IsHexDigit(c) == c \in {"2", "5", "A", "C", "e", "f"}

\* The character a %XX escape stands for.  The model's inputs only produce
\* %2C and %25; "?" stands for every other byte.
ByteChar(h1, h2) ==
  CASE h1 = "2" /\ h2 = "C" -> ","
    [] h1 = "2" /\ h2 = "5" -> "%"
    [] OTHER -> "?"

\* encodeURIComponent of one character: letters and digits are kept, every
\* other character becomes the %XX escape of its byte
EncodeChar(c) ==
  CASE c = "," -> <<"%", "2", "C">>
    [] c = "%" -> <<"%", "2", "5">>
    [] OTHER -> <<c>>

RECURSIVE encodeURIComponent(_)
encodeURIComponent(s) ==
  IF s = <<>> THEN <<>>
  ELSE EncodeChar(Head(s)) \o encodeURIComponent(Tail(s))

RECURSIVE PercentDecode(_)
\* URLSearchParams' percent-decoding of a query value: a % followed by two
\* hex digits becomes the byte, any other % is kept as it is
PercentDecode(s) ==
  IF s = <<>> THEN <<>>
  ELSE IF Head(s) = "%" /\ Len(s) >= 3 /\ IsHexDigit(s[2]) /\ IsHexDigit(s[3])
       THEN <<ByteChar(s[2], s[3])>> \o PercentDecode(SubSeq(s, 4, Len(s)))
       ELSE <<Head(s)>> \o PercentDecode(Tail(s))

RECURSIVE DecodeThrows(_)
\* decodeURIComponent throws URIError on a % that is not followed by two hex digits
DecodeThrows(s) ==
  IF s = <<>> THEN FALSE
  ELSE IF Head(s) = "%"
       THEN IF Len(s) >= 3 /\ IsHexDigit(s[2]) /\ IsHexDigit(s[3])
            THEN DecodeThrows(SubSeq(s, 4, Len(s)))
            ELSE TRUE
       ELSE DecodeThrows(Tail(s))

RECURSIVE decodeURIComponent(_)
\* the value decodeURIComponent returns when it does not throw
decodeURIComponent(s) ==
  IF s = <<>> THEN <<>>
  ELSE IF Head(s) = "%"
       THEN <<ByteChar(s[2], s[3])>> \o decodeURIComponent(SubSeq(s, 4, Len(s)))
       ELSE <<Head(s)>> \o decodeURIComponent(Tail(s))

RECURSIVE SplitFrom(_, _)
\* the pieces of s between commas, cur being the piece read so far
SplitFrom(s, cur) ==
  IF s = <<>> THEN <<cur>>
  ELSE IF Head(s) = "," THEN <<cur>> \o SplitFrom(Tail(s), <<>>)
       ELSE SplitFrom(Tail(s), Append(cur, Head(s)))

\* urlCities.split(',')
Split(s) == SplitFrom(s, <<>>)

RECURSIVE Join(_)
\* names.join(",")
Join(ss) ==
  IF ss = <<>> THEN <<>>
  ELSE IF Len(ss) = 1 THEN ss[1]
       ELSE ss[1] \o <<",">> \o Join(Tail(ss))

\* names.sort(): stable, by code units
SortStrings(ss) ==
  LET rank(i) == Cardinality({j \in DOMAIN ss :
                     StrLess(ss[j], ss[i]) \/ (~StrLess(ss[i], ss[j]) /\ j < i)}) + 1
  IN  [k \in DOMAIN ss |-> ss[CHOOSE i \in DOMAIN ss : rank(i) = k]]

(***************************************************************************)
(* The catalog: the global cities the page loads next to app.js.  Names    *)
(* are unique.  Au and Hof have the same coordinates, AuHof lies a         *)
(* thousandth of a degree south of them, Kiel and Ulm are far away.  One   *)
(* name contains a comma and one a percent sign.                           *)
(***************************************************************************)
Au == [name |-> <<"A", "u">>, lat |-> 50000, lon |-> 10000]
Hof == [name |-> <<"H", "o", "f">>, lat |-> 50000, lon |-> 10000]
AuHof == [name |-> <<"A", "u", ",", "H", "o", "f">>, lat |-> 49990, lon |-> 10000]
Kiel == [name |-> <<"K", "i", "e", "l">>, lat |-> 54320, lon |-> 10130]
Ulm == [name |-> <<"U", "l", "m", "%">>, lat |-> 48400, lon |-> 9990]

\* the catalog in its order
cities == <<Au, AuHof, Hof, Kiel, Ulm>>

Catalog == {cities[i] : i \in DOMAIN cities}

\* a name no catalog entry has
Nix == <<"N", "i", "x">>

\* cities.find(c => c.name === n): the first entry of that name, or none
FindCity(n) ==
  LET hits == {i \in DOMAIN cities : cities[i].name = n}
  IN  IF hits = {} THEN <<>>
      ELSE <<cities[CHOOSE i \in hits : \A j \in hits : i <= j]>>

(***************************************************************************)
(* The two sort orders of markedCities.  Array.prototype.sort is stable.   *)
(***************************************************************************)
\* compareNames(a, b) < 0
NameBefore(a, b) == StrLess(a.name, b.name)

\* the comparator of updateCityMarkers returns a negative number
GeoBefore(a, b) ==
  IF b.lat # a.lat THEN b.lat - a.lat < 0 ELSE a.lon - b.lon < 0

\* markedCities.sort(compareNames)
SortNames(m) ==
  LET rank(i) == Cardinality({j \in DOMAIN m :
                     NameBefore(m[j], m[i]) \/ (~NameBefore(m[i], m[j]) /\ j < i)}) + 1
  IN  [k \in DOMAIN m |-> m[CHOOSE i \in DOMAIN m : rank(i) = k]]

\* markedCities.sort((a, b) => ...) of updateCityMarkers
SortGeo(m) ==
  LET rank(i) == Cardinality({j \in DOMAIN m :
                     GeoBefore(m[j], m[i]) \/ (~GeoBefore(m[i], m[j]) /\ j < i)}) + 1
  IN  [k \in DOMAIN m |-> m[CHOOSE i \in DOMAIN m : rank(i) = k]]

\* isCityMarked(name) on an array m
isCityMarked(m, name) == \E i \in DOMAIN m : m[i].name = name

(***************************************************************************)
(* Projection and label placement.                                         *)
(***************************************************************************)
\* (num / den) * scale in thousandths
Thousandths(num, den, scale) ==
  ((num * scale) \div den) * 1000 + (((num * scale) % den) * 1000) \div den

\* geoToSvg without the inversion of the vertical axis
geoToSvgUpright(lat, lon) ==
  [x |-> (0 - (MAP_PAD_X * 1000) \div 2)
           + Thousandths(lon - MAP_MIN_LON, MAP_MAX_LON - MAP_MIN_LON, MAP_WIDTH),
   y |-> (MAP_PAD_Y * 1000) \div 2
           + Thousandths(lat - MAP_MIN_LAT, MAP_MAX_LAT - MAP_MIN_LAT, MAP_HEIGHT)]

geoToSvg(lat, lon) ==
  [x |-> (0 - (MAP_PAD_X * 1000) \div 2)
           + Thousandths(lon - MAP_MIN_LON, MAP_MAX_LON - MAP_MIN_LON, MAP_WIDTH),
   y |-> (MAP_PAD_Y * 1000) \div 2 + MAP_HEIGHT * 1000
           - Thousandths(lat - MAP_MIN_LAT, MAP_MAX_LAT - MAP_MIN_LAT, MAP_HEIGHT)]

\* font-size of the label
FONT_SIZE == 16

\* The text measurement of the browser: label.getBBox() for a text element
\* with attributes x, y.  The box starts at x, reaches from the ascent above
\* the baseline y to the descent below it, and is as wide as the text.
getBBox(x, y, name) ==
  [x |-> x, y |-> y - FONT_SIZE * 875,
   width |-> Len(name) * FONT_SIZE * 500, height |-> FONT_SIZE * 1125]

\* 1000 * sin and 1000 * cos of step * 2 * PI / 12
Sin12(step) ==
  LET r == step % 12
  IN  CASE r \in {0, 6} -> 0
        [] r \in {1, 5} -> 500
        [] r \in {2, 4} -> 866
        [] r = 3 -> 1000
        [] r \in {7, 11} -> -500
        [] r \in {8, 10} -> -866
        [] r = 9 -> -1000

Cos12(step) == Sin12(step + 3)

\* overlap with comparisons that admit equality
overlapNonStrict(a, b) ==
  /\ a.x <= b.x + b.width
  /\ a.x + a.width >= b.x
  /\ a.y <= b.y + b.height
  /\ a.y + a.height >= b.y

\* overlap with its last comparison turned around
overlapFlipped(a, b) ==
  /\ a.x < b.x + b.width
  /\ a.x + a.width > b.x
  /\ a.y < b.y + b.height
  /\ a.y + a.height < b.y

overlap(a, b) ==
  /\ a.x < b.x + b.width
  /\ a.x + a.width > b.x
  /\ a.y < b.y + b.height
  /\ a.y + a.height > b.y

\* the ring candidate without the offset of six steps
CandidateNoOffset(x, y, rx, ry, box, tries) ==
  LET dx == 0 - ((rx * Sin12(tries)) \div 1000)
      dy == (ry * Cos12(tries)) \div 1000
  IN  [lx |-> x + dx - box.width \div 2, ly |-> y + dy + box.height \div 2]

\* the label position tried at step tries of the ring search (lines 192-197)
Candidate(x, y, rx, ry, box, tries) ==
  LET dx == 0 - ((rx * Sin12(tries + 6)) \div 1000)
      dy == (ry * Cos12(tries + 6)) \div 1000
  IN  [lx |-> x + dx - box.width \div 2, ly |-> y + dy + box.height \div 2]

\* the while loop is left after 12 tries
MAX_TRIES == 12

RECURSIVE RingSearchEager(_, _, _, _, _, _, _, _)
\* as RingSearch, with the loop bound one too small
RingSearchEager(name, x, y, rx, ry, box, bboxes, tries) ==
  LET c == Candidate(x, y, rx, ry, box, tries)
      labelBbox == getBBox(c.lx, c.ly, name)
      doOverlap == \E i \in DOMAIN bboxes : overlap(bboxes[i], labelBbox)
  IN  IF ~doOverlap \/ tries + 1 >= MAX_TRIES - 1
      THEN [x |-> c.lx, y |-> c.ly, tries |-> tries + 1, found |-> ~doOverlap,
            bbox |-> getBBox(c.lx, c.ly, name)]
      ELSE RingSearchEager(name, x, y, rx, ry, labelBbox, bboxes, tries + 1)

RECURSIVE RingSearch(_, _, _, _, _, _, _, _)
\* The while loop of lines 191-214, entered with tries < 12 and found false:
\* the label's final attributes, the loop's counters, and the box line 216
\* pushes.
RingSearch(name, x, y, rx, ry, box, bboxes, tries) ==
  LET c == Candidate(x, y, rx, ry, box, tries)
      labelBbox == getBBox(c.lx, c.ly, name)
      doOverlap == \E i \in DOMAIN bboxes : overlap(bboxes[i], labelBbox)
  IN  IF ~doOverlap \/ tries + 1 >= MAX_TRIES
      THEN [x |-> c.lx, y |-> c.ly, tries |-> tries + 1, found |-> ~doOverlap,
            bbox |-> getBBox(c.lx, c.ly, name)]
      ELSE RingSearch(name, x, y, rx, ry, labelBbox, bboxes, tries + 1)

\* One turn of the forEach of line 134: the circle and the label of a city,
\* placed against the boxes of the group's earlier labels.
PlaceCity(city, bboxes) ==
  LET p == geoToSvg(city.lat, city.lon)
      box == getBBox(p.x, p.y, city.name)
      rx == box.width \div 2 + 10000
      ry == box.height \div 2 + 10000
      r == RingSearch(city.name, p.x, p.y, rx, ry, box, bboxes, 0)
  IN  [name |-> city.name, cx |-> p.x, cy |-> p.y, x |-> r.x, y |-> r.y,
       tries |-> r.tries, found |-> r.found, bbox |-> r.bbox]

RECURSIVE PlaceAllReversed(_, _, _)
\* the cities placed from the last to the first
PlaceAllReversed(m, group, bboxes) ==
  IF m = <<>> THEN group
  ELSE LET rest == PlaceAllReversed(Tail(m), <<>>, bboxes)
           e == PlaceCity(Head(m), bboxes \o [i \in DOMAIN rest |-> rest[i].bbox])
       IN  group \o <<e>> \o rest

RECURSIVE PlaceAll(_, _, _)
\* the forEach of lines 134-220: group holds the elements made so far,
\* bboxes the boxes pushed so far
PlaceAll(m, group, bboxes) ==
  IF m = <<>> THEN group
  ELSE LET e == PlaceCity(Head(m), bboxes)
       IN  PlaceAll(Tail(m), Append(group, e), Append(bboxes, e.bbox))

(***************************************************************************)
(* The state: the globals of app.js and the parts of the page it writes.   *)
(***************************************************************************)
VARIABLES
  svgDoc,        \* TRUE when svgDoc holds the loaded SVG, FALSE when it is null
  markedCities,  \* the array markedCities
  markerGroup,   \* the children of the marker group: one circle and label per entry
  cityList,      \* the names shown in #city-list
  url,           \* the cities parameter of the page's URL: has it one, and its raw value
  loadState      \* fetch: "pending", "rejected", or its last handler "done" or "threw"

vars == <<svgDoc, markedCities, markerGroup, cityList, url, loadState>>

\* the state as one value, for the functions below
Cur ==
  [svgDoc |-> svgDoc, markedCities |-> markedCities, markerGroup |-> markerGroup,
   cityList |-> cityList, url |-> url]

Names(m) == [i \in DOMAIN m |-> m[i].name]

\* the group left as it is
ClearGroupKeep(group) == group

\* markerGroup.innerHTML = ''
ClearGroup(group) == <<>>

\* updateCityMarkers without the test of svgDoc
updateCityMarkersUnguarded(S) ==
  LET sorted == SortGeo(S.markedCities)
  IN  [S EXCEPT !.markedCities = sorted,
                !.markerGroup = PlaceAll(sorted, ClearGroup(S.markerGroup), <<>>)]

updateCityMarkers(S) ==
  IF ~S.svgDoc THEN S
  ELSE LET sorted == SortGeo(S.markedCities)
       IN  [S EXCEPT !.markedCities = sorted,
                     !.markerGroup = PlaceAll(sorted, ClearGroup(S.markerGroup), <<>>)]

updateCityList(S) ==
  LET sorted == SortNames(S.markedCities)
  IN  [S EXCEPT !.markedCities = sorted, !.cityList = Names(sorted)]

NoParam == [has |-> FALSE, cities |-> <<>>]

\* updateShareURL listing the names in the order of the render pass
updateShareURLGeo(S) ==
  IF Len(S.markedCities) = 0 THEN [S EXCEPT !.url = NoParam]
  ELSE LET sorted == SortGeo(S.markedCities)
           cityNames == Join([i \in DOMAIN sorted |-> encodeURIComponent(sorted[i].name)])
       IN  [S EXCEPT !.markedCities = sorted,
                     !.url = [has |-> TRUE, cities |-> cityNames]]

\* updateShareURL writing an empty cities parameter for an empty selection
updateShareURLEmpty(S) ==
  LET sorted == SortNames(S.markedCities)
      cityNames == Join([i \in DOMAIN sorted |-> encodeURIComponent(sorted[i].name)])
  IN  [S EXCEPT !.markedCities = sorted,
                !.url = [has |-> TRUE, cities |-> cityNames]]

updateShareURL(S) ==
  IF Len(S.markedCities) = 0 THEN [S EXCEPT !.url = NoParam]
  ELSE LET sorted == SortNames(S.markedCities)
           cityNames == Join([i \in DOMAIN sorted |-> encodeURIComponent(sorted[i].name)])
       IN  [S EXCEPT !.markedCities = sorted,
                     !.url = [has |-> TRUE, cities |-> cityNames]]

\* a membership test that finds nothing
isCityMarkedNever(S, name) == FALSE

\* isCityMarked(name) on the state S
isCityMarkedIn(S, name) == isCityMarked(S.markedCities, name)

addCity(S, city) ==
  IF isCityMarkedIn(S, city.name) THEN S
  ELSE updateShareURL(updateCityList(updateCityMarkers(
         [S EXCEPT !.markedCities = Append(@, city)])))

\* removeCity without the render pass
removeCityNoRender(S, cityName) ==
  updateShareURL(updateCityList(
    [S EXCEPT !.markedCities = SelectSeq(@, LAMBDA c : c.name # cityName)]))

removeCity(S, cityName) ==
  updateShareURL(updateCityList(updateCityMarkers(
    [S EXCEPT !.markedCities = SelectSeq(@, LAMBDA c : c.name # cityName)])))

\* params.get('cities'): null is given as the empty string, both are falsy
UrlCities(S) == IF S.url.has THEN PercentDecode(S.url.cities) ELSE <<>>

\* restoreFromURL() throws: one of the mapped decodeURIComponent calls does
RestoreThrows(S) ==
  /\ UrlCities(S) # <<>>
  /\ \E i \in DOMAIN Split(UrlCities(S)) : DecodeThrows(Split(UrlCities(S))[i])

RECURSIVE FindAll(_)
\* the for loop of lines 301-304
FindAll(names) ==
  IF names = <<>> THEN <<>>
  ELSE FindCity(Head(names)) \o FindAll(Tail(names))

\* restoreFromURL() when it returns
restoreFromURL(S) ==
  IF UrlCities(S) = <<>> THEN S
  ELSE LET tokens == Split(UrlCities(S))
           names == SortStrings([i \in DOMAIN tokens |-> decodeURIComponent(tokens[i])])
       IN  updateCityList(updateCityMarkers([S EXCEPT !.markedCities = FindAll(names)]))

\* The handler of lines 19-25, svg telling whether the response holds an svg
\* element.  The result is the state it leaves; threw tells whether it
\* ended in restoreFromURL's exception.
LoadHandler(S, svg) ==
  LET S1 == [S EXCEPT !.svgDoc = svg, !.markerGroup = <<>>]
  IN  IF RestoreThrows(S1) THEN [state |-> S1, threw |-> TRUE]
      ELSE [state |-> updateCityMarkers(restoreFromURL(S1)), threw |-> FALSE]

(***************************************************************************)
(* The query strings the page may be opened with.                          *)
(***************************************************************************)
\* one piece between commas, as written in the address
RawTokens ==
  {encodeURIComponent(c.name) : c \in {Au, Hof, AuHof, Ulm}}
    \cup {Nix, <<"%", "z", "z">>}

TokenLists == UNION {[1..n -> RawTokens] : n \in 0..MaxTokens}

InitialURLs == {NoParam} \cup {[has |-> TRUE, cities |-> Join(t)] : t \in TokenLists}

\* the names removeCity is called with
RemoveNames == {c.name : c \in Catalog} \cup {Nix}

(***************************************************************************)
(* Initial state and steps.                                                *)
(***************************************************************************)
Init ==
  /\ svgDoc = FALSE
  /\ markedCities = <<>>
  /\ markerGroup = <<>>
  /\ cityList = <<>>
  /\ url \in InitialURLs
  /\ loadState = "pending"

Becomes(S) ==
  /\ svgDoc' = S.svgDoc
  /\ markedCities' = S.markedCities
  /\ markerGroup' = S.markerGroup
  /\ cityList' = S.cityList
  /\ url' = S.url

\* a click on a suggestion, or Enter on a single match
AddCity ==
  \E c \in Catalog : Becomes(addCity(Cur, c)) /\ UNCHANGED loadState

\* a click on a remove button
RemoveCity ==
  \E n \in RemoveNames : Becomes(removeCity(Cur, n)) /\ UNCHANGED loadState

\* fetch resolves with the SVG text
LoadSvg ==
  /\ loadState = "pending"
  /\ LET r == LoadHandler(Cur, TRUE)
     IN  Becomes(r.state) /\ loadState' = IF r.threw THEN "threw" ELSE "done"

\* fetch resolves with a body that holds no svg element (an error page)
LoadNoSvg ==
  /\ loadState = "pending"
  /\ LET r == LoadHandler(Cur, FALSE)
     IN  Becomes(r.state) /\ loadState' = IF r.threw THEN "threw" ELSE "done"

\* fetch rejects: no handler runs
LoadRejected ==
  /\ loadState = "pending"
  /\ loadState' = "rejected"
  /\ UNCHANGED <<svgDoc, markedCities, markerGroup, cityList, url>>

Next == AddCity \/ RemoveCity \/ LoadSvg \/ LoadNoSvg \/ LoadRejected

Spec == Init /\ [][Next]_vars

(***************************************************************************)
(* Notions the properties are stated with.                                 *)
(***************************************************************************)
\* how often city c occurs in the array m
Count(m, c) == Cardinality({i \in DOMAIN m : m[i] = c})

\* the arrays hold the same cities, each as often
SameMembers(a, b) == \A c \in Catalog : Count(a, c) = Count(b, c)

\* the open rectangles a and b have a point in common
Intersects(a, b) ==
  LET left == IF a.x > b.x THEN a.x ELSE b.x
      right == IF a.x + a.width < b.x + b.width THEN a.x + a.width ELSE b.x + b.width
      top == IF a.y > b.y THEN a.y ELSE b.y
      bottom == IF a.y + a.height < b.y + b.height THEN a.y + a.height ELSE b.y + b.height
  IN  left < right /\ top < bottom

\* the position of ring candidate k (0..11) of the group's element e
CandidatePos(e, k) ==
  LET box == getBBox(e.cx, e.cy, e.name)
  IN  Candidate(e.cx, e.cy, box.width \div 2 + 10000, box.height \div 2 + 10000, box, k)

\* the bounding box of the label of e at ring candidate k
CandidateBox(e, k) == getBBox(CandidatePos(e, k).lx, CandidatePos(e, k).ly, e.name)

\* the ring candidates of element i of group g that meet no box recorded before it
FreeCandidates(g, i) ==
  {k \in 0..11 : \A j \in 1..(i - 1) : ~Intersects(g[j].bbox, CandidateBox(g[i], k))}

\* the marker group shows the selection: a render pass ran after its last change
Rendered == svgDoc /\ Len(markerGroup) = Len(markedCities)

\* a page just opened at the address u
FreshPage(u) ==
  [svgDoc |-> FALSE, markedCities |-> <<>>, markerGroup |-> <<>>,
   cityList |-> <<>>, url |-> u]

\* the page opened at the address updateShareURL writes for S, after its load
Reopened(S) == LoadHandler(FreshPage(updateShareURL(S).url), TRUE)

(***************************************************************************)
(* The properties.                                                         *)
(***************************************************************************)

\* C1: markedCities holds at most one entry per city name, in every
\* reachable state.
C1_NoDuplicateNames ==
  \A i, j \in DOMAIN markedCities :
    i # j => markedCities[i].name # markedCities[j].name

\* C2: the layout depends on the set of selected cities only: whenever the
\* marker group shows the selection, it is the group that opening the page at
\* the share address of this selection renders, provided that restores the
\* same cities.
C2_SameSetSameLayout ==
  Rendered =>
    LET r == Reopened(Cur)
    IN  (~r.threw /\ SameMembers(r.state.markedCities, markedCities))
          => r.state.markerGroup = markerGroup

\* C3: addCity(x) followed by removeCity(x.name), for a city x that is not
\* selected, restores the members of the selection and the order in which the
\* render pass processes them.
C3_AddRemoveRestores ==
  Rendered =>
    \A c \in Catalog :
      ~isCityMarked(markedCities, c.name) =>
        LET S2 == removeCity(addCity(Cur, c), c.name)
        IN  /\ SameMembers(S2.markedCities, markedCities)
            /\ Names(S2.markerGroup) = Names(markerGroup)

\* C4: addCity(x) for a city whose name is selected changes nothing, and a
\* second addCity(x) changes nothing after a first one.
C4_DuplicateAddNoOp ==
  \A c \in Catalog :
    /\ isCityMarked(markedCities, c.name) => addCity(Cur, c) = Cur
    /\ addCity(addCity(Cur, c), c) = addCity(Cur, c)
    /\ Len(addCity(addCity(Cur, c), c).markedCities) <= Len(markedCities) + 1

\* a selected city is added again, with the map loaded and two cities selected
C4_Witness ==
  /\ svgDoc
  /\ Len(markedCities) >= 2
  /\ Rendered
  /\ \E c \in Catalog : isCityMarked(markedCities, c.name) /\ addCity(Cur, c) = Cur

\* C5: removeCity(name) for a name that is not selected leaves the members
\* of the selection and the marker group as they are, when the marker group
\* shows the selection.
C5_RemoveAbsentNoOp ==
  Rendered =>
    \A n \in RemoveNames :
      ~isCityMarked(markedCities, n) =>
        LET S2 == removeCity(Cur, n)
        IN  SameMembers(S2.markedCities, markedCities) /\ S2.markerGroup = markerGroup

\* C6: when every label of the marker group had a ring candidate that met no
\* box recorded before it, no two recorded boxes intersect.
C6_NoCollision ==
  (\A i \in DOMAIN markerGroup : FreeCandidates(markerGroup, i) # {}) =>
    \A i, j \in DOMAIN markerGroup :
      i < j => ~Intersects(markerGroup[i].bbox, markerGroup[j].bbox)

\* three labels, each with a free candidate, one of them moved off its first one
C6_Witness ==
  /\ Len(markerGroup) >= 3
  /\ \A i \in DOMAIN markerGroup : FreeCandidates(markerGroup, i) # {}
  /\ \E i \in DOMAIN markerGroup : markerGroup[i].tries > 1

\* C7: every label sits at its first ring candidate that meets no box
\* recorded before it, or at the twelfth candidate when there is none, and the
\* box recorded for it is the box of that candidate.
C7_FirstFreeOrLast ==
  \A i \in DOMAIN markerGroup :
    LET e == markerGroup[i]
        free == FreeCandidates(markerGroup, i)
        k == IF free # {} THEN CHOOSE n \in free : \A o \in free : n <= o ELSE 11
    IN  /\ e.tries = k + 1
        /\ e.found = (free # {})
        /\ e.x = CandidatePos(e, k).lx
        /\ e.y = CandidatePos(e, k).ly
        /\ e.bbox = CandidateBox(e, k)

\* one label found all twelve candidates taken, another moved off its first one
C7_Witness ==
  /\ \E i \in DOMAIN markerGroup :
       FreeCandidates(markerGroup, i) = {} /\ markerGroup[i].tries = 12
  /\ \E i \in DOMAIN markerGroup :
       markerGroup[i].found /\ markerGroup[i].tries > 1

\* C8: a second updateCityMarkers() right after a first one processes the
\* cities in the same order and leaves the same marker group, which holds one
\* element per selected city and nothing of the first pass.
C8_RenderIdempotent ==
  LET S1 == updateCityMarkers(Cur)
      S2 == updateCityMarkers(S1)
  IN  /\ S2.markedCities = S1.markedCities
      /\ S2.markerGroup = S1.markerGroup
      /\ svgDoc => Len(S2.markerGroup) = Len(markedCities)

\* the map is loaded and shows three cities, two of them at the same place
C8_Witness ==
  /\ Rendered
  /\ Len(markerGroup) >= 3
  /\ \E i, j \in DOMAIN markerGroup :
       i # j /\ markerGroup[i].cx = markerGroup[j].cx /\ markerGroup[i].cy = markerGroup[j].cy
  /\ updateCityMarkers(updateCityMarkers(Cur)).markerGroup = markerGroup

\* C9: opening the page at the address updateShareURL writes restores
\* exactly the selection.
C9_RoundTrip ==
  LET r == Reopened(Cur)
  IN  ~r.threw /\ SameMembers(r.state.markedCities, markedCities)

\* C10: the load handler never ends in an exception of restoreFromURL: the
\* restore completes and the first render runs, whatever the cities value.
C10_LoadHandlerCompletes == loadState # "threw"

\* C11: restoring from a cities value whose comma separated tokens are all
\* well-formed selects the catalog cities a token names, and no other city.
C11_UnknownDropped ==
  (loadState = "pending" /\ url.has /\ url.cities # <<>>) =>
    LET tokens == Split(url.cities)
        r == LoadHandler(Cur, TRUE)
    IN  (\A i \in DOMAIN tokens : ~DecodeThrows(tokens[i])) =>
          /\ ~r.threw
          /\ \A c \in Catalog :
               isCityMarked(r.state.markedCities, c.name)
                 <=> \E i \in DOMAIN tokens : decodeURIComponent(tokens[i]) = c.name

\* C11, for values without an escaped comma or percent sign: the cities
\* restored are those a token names, unknown names leave nothing.
C11_UnknownDroppedPlain ==
  (loadState = "pending" /\ url.has /\ url.cities # <<>>) =>
    LET tokens == Split(url.cities)
        r == LoadHandler(Cur, TRUE)
    IN  (\A i \in DOMAIN tokens : \A k \in DOMAIN tokens[i] : tokens[i][k] # "%") =>
          /\ ~r.threw
          /\ \A c \in Catalog :
               isCityMarked(r.state.markedCities, c.name)
                 <=> \E i \in DOMAIN tokens : tokens[i] = c.name

\* C12: after addCity and after removeCity the address has a cities
\* parameter exactly when the selection is not empty, and never an empty one.
C12_ParamIffSelection ==
  /\ \A c \in Catalog :
       LET S2 == addCity(Cur, c)
       IN  /\ S2.url.has <=> Len(S2.markedCities) > 0
           /\ S2.url.has => S2.url.cities # <<>>
  /\ \A n \in RemoveNames :
       LET S2 == removeCity(Cur, n)
       IN  /\ S2.url.has <=> Len(S2.markedCities) > 0
           /\ S2.url.has => S2.url.cities # <<>>

\* the only selected city can be removed, which takes the parameter away
C12_Witness ==
  /\ loadState = "done"
  /\ url.has
  /\ Len(markedCities) = 1
  /\ removeCity(Cur, markedCities[1].name).url = NoParam

\* C13 as claimed: the address updateShareURL writes lists the names in the
\* order in which the render pass processed the markers.
C13_ShareOrderIsRenderOrder ==
  svgDoc =>
    \A c \in Catalog :
      ~isCityMarked(markedCities, c.name) =>
        LET S2 == addCity(Cur, c)
        IN  S2.url.cities
              = Join([i \in DOMAIN S2.markerGroup |->
                        encodeURIComponent(S2.markerGroup[i].name)])

\* C13 amended: the address updateShareURL writes lists the escaped names in
\* ascending order of the names, which is the order of the city list.
C13_ShareOrderIsNameOrder ==
  /\ \A c \in Catalog :
       ~isCityMarked(markedCities, c.name) =>
         LET S2 == addCity(Cur, c)
             tokens == Split(S2.url.cities)
         IN  /\ tokens = [i \in DOMAIN S2.cityList |-> encodeURIComponent(S2.cityList[i])]
             /\ \A i, j \in DOMAIN S2.cityList :
                  i < j => ~StrLess(S2.cityList[j], S2.cityList[i])
  /\ \A n \in RemoveNames :
       LET S2 == removeCity(Cur, n)
           tokens == Split(S2.url.cities)
       IN  S2.url.has =>
             /\ tokens = [i \in DOMAIN S2.cityList |-> encodeURIComponent(S2.cityList[i])]
             /\ \A i, j \in DOMAIN S2.cityList :
                  i < j => ~StrLess(S2.cityList[j], S2.cityList[i])

\* the address was written for two cities whose name order is not their render order
C13_Witness ==
  /\ Rendered
  /\ markedCities = <<Au, Kiel>>
  /\ Names(markerGroup) = <<Kiel.name, Au.name>>
  /\ url.cities = Join(<<encodeURIComponent(Au.name), encodeURIComponent(Kiel.name)>>)

\* C14: while svgDoc is null the marker group holds no marker and no label,
\* and it never holds one after the load was rejected.
C14_NoRenderBeforeLoad ==
  /\ ~svgDoc => markerGroup = <<>>
  /\ loadState \in {"pending", "rejected"} => markerGroup = <<>>

\* cities were added before the load, which then failed
C14_Witness ==
  /\ loadState = "rejected"
  /\ Len(markedCities) >= 2
  /\ markerGroup = <<>>

\* C16: a city added before the load resolves does not lose the selection
\* the page was opened with: every city the load would have restored from the
\* address as opened is restored after the addCity too.
C16_StartupSelectionKept ==
  [][(/\ loadState = "pending" /\ loadState' = "pending"
      /\ markedCities = <<>>
      /\ markedCities' \in {<<Kiel>>, <<Au>>, <<Hof>>}
      /\ ~LoadHandler(Cur, TRUE).threw)
     => \A d \in Catalog :
          isCityMarked(LoadHandler(Cur, TRUE).state.markedCities, d.name)
            => isCityMarked(LoadHandler(Cur', TRUE).state.markedCities, d.name)]_vars

\* C17: when the load handler has run to its end with the SVG in place, the
\* marker group holds one circle and label per entry of markedCities, with
\* the same names, and nothing else.
C17_LayerShowsSelection ==
  (svgDoc /\ loadState = "done") =>
    /\ Len(markerGroup) = Len(markedCities)
    /\ \A c \in Catalog :
         Cardinality({i \in DOMAIN markerGroup : markerGroup[i].name = c.name})
           = Count(markedCities, c)

\* the map is loaded and shows exactly Kiel and Ulm, which the list and the address name too
C17_Witness ==
  /\ svgDoc
  /\ loadState = "done"
  /\ Len(markerGroup) = 2
  /\ Len(cityList) = 2
  /\ url.has
  /\ Len(Split(url.cities)) = 2
  /\ Names(markerGroup) = <<Kiel.name, Ulm.name>>

\* C18: a render pass of the selection with a city c added that is processed
\* last gives every other city the label position and box the pass without c
\* gives it.
C18_LaterMarkerNoEffect ==
  svgDoc =>
    \A c \in Catalog :
      (/\ ~isCityMarked(markedCities, c.name)
       /\ \A i \in DOMAIN markedCities : ~GeoBefore(c, markedCities[i])) =>
        LET base == updateCityMarkers(Cur).markerGroup
            plus == updateCityMarkers([Cur EXCEPT !.markedCities = Append(@, c)]).markerGroup
        IN  /\ Len(plus) = Len(base) + 1
            /\ SubSeq(plus, 1, Len(base)) = base
            /\ plus[Len(plus)].name = c.name

\* Au and Hof are shown, and AuHof, processed last, would have to leave its
\* first candidate because of their labels
C18_Witness ==
  /\ Rendered
  /\ isCityMarked(markedCities, Au.name)
  /\ isCityMarked(markedCities, Hof.name)
  /\ ~isCityMarked(markedCities, AuHof.name)
  /\ ~isCityMarked(markedCities, Ulm.name)
  /\ LET plus == updateCityMarkers([Cur EXCEPT !.markedCities = Append(@, AuHof)]).markerGroup
     IN  plus[Len(plus)].name = AuHof.name /\ plus[Len(plus)].tries > 1

\* the offset of the label's centre from the anchor, for element e of the group
LabelOffset(e) ==
  [dx |-> e.x + e.bbox.width \div 2 - e.cx, dy |-> e.y - e.bbox.height \div 2 - e.cy]

\* C20 as claimed: the first candidate lies below and right of the anchor
\* (dx >= 0 and dy > 0).
C20_FirstBelowRight ==
  \A i \in DOMAIN markerGroup :
    markerGroup[i].tries = 1 =>
      LabelOffset(markerGroup[i]).dx >= 0 /\ LabelOffset(markerGroup[i]).dy > 0

\* C20 amended: at most 12 candidates are tried, candidate k at the angle
\* (k + 6) twelfths of a turn; the first lies straight above the anchor
\* (dx = 0, dy = -ry), the fourth right of it, the seventh below, the tenth
\* left.
C20_RingFromAbove ==
  \A i \in DOMAIN markerGroup :
    LET e == markerGroup[i]
        o == LabelOffset(e)
        rx == e.bbox.width \div 2 + 10000
        ry == e.bbox.height \div 2 + 10000
    IN  /\ e.tries \in 1..12
        /\ o.dx * 1000 = 0 - rx * Sin12(e.tries - 1 + 6)
        /\ o.dy * 1000 = ry * Cos12(e.tries - 1 + 6)
        /\ e.tries = 1 => (o.dx = 0 /\ o.dy = 0 - ry /\ o.dy < 0)
        /\ e.tries = 4 => (o.dx = rx /\ o.dy = 0)
        /\ e.tries = 7 => (o.dx = 0 /\ o.dy = ry)
        /\ e.tries = 10 => (o.dx = 0 - rx /\ o.dy = 0)

\* labels at the first, fourth, seventh and tenth candidate
C20_Witness ==
  \A t \in {1, 4, 7, 10} : \E i \in DOMAIN markerGroup : markerGroup[i].tries = t

(***************************************************************************)
(* The page with a catalog of points that probe the projection: the four   *)
(* corners of the geographic bounding box, two points inside it at simple  *)
(* fractions of its sides, and one point outside it.  The map is loaded    *)
(* and the address has no cities parameter.                                *)
(***************************************************************************)
SW == [name |-> <<"A">>, lat |-> MAP_MIN_LAT, lon |-> MAP_MIN_LON]
SE == [name |-> <<"C">>, lat |-> MAP_MIN_LAT, lon |-> MAP_MAX_LON]
NW == [name |-> <<"H">>, lat |-> MAP_MAX_LAT, lon |-> MAP_MIN_LON]
NE == [name |-> <<"K">>, lat |-> MAP_MAX_LAT, lon |-> MAP_MAX_LON]
\* half of the width east of the west side, a third of the height north of the south side
Mid ==
  [name |-> <<"N">>,
   lat |-> MAP_MIN_LAT + (MAP_MAX_LAT - MAP_MIN_LAT) \div 3,
   lon |-> MAP_MIN_LON + (MAP_MAX_LON - MAP_MIN_LON) \div 2]
\* a quarter of the width east, two thirds of the height north
Quarter ==
  [name |-> <<"U">>,
   lat |-> MAP_MIN_LAT + 2 * ((MAP_MAX_LAT - MAP_MIN_LAT) \div 3),
   lon |-> MAP_MIN_LON + (MAP_MAX_LON - MAP_MIN_LON) \div 4]
\* a whole height south of the south side, a whole width east of the east side
Outside ==
  [name |-> <<"e">>,
   lat |-> MAP_MIN_LAT - (MAP_MAX_LAT - MAP_MIN_LAT),
   lon |-> MAP_MAX_LON + (MAP_MAX_LON - MAP_MIN_LON)]

Probes == {SW, SE, NW, NE, Mid, Quarter, Outside}

ProjInit ==
  /\ svgDoc = TRUE
  /\ markedCities = <<>>
  /\ markerGroup = <<>>
  /\ cityList = <<>>
  /\ url = NoParam
  /\ loadState = "done"

AddProbe ==
  \E c \in Probes : Becomes(addCity(Cur, c)) /\ UNCHANGED loadState

RemoveProbe ==
  \E c \in Probes : Becomes(removeCity(Cur, c.name)) /\ UNCHANGED loadState

ProjNext == AddProbe \/ RemoveProbe

ProjSpec == ProjInit /\ [][ProjNext]_vars

\* the probe whose circle is element e of the marker group
ProbeOf(e) == CHOOSE c \in Probes : c.name = e.name

\* C15: the circles of the four corners of the geographic bounding box sit on
\* the four corners of the surface rectangle, south-west at the bottom left
\* and north-east at the top right; the points at a half, a quarter and the
\* thirds of the sides sit at those fractions of the surface (to a
\* thousandth), the point outside at the same distances outside; x grows with
\* the longitude and y falls with the latitude.
C15_CornersOnCorners ==
  /\ \A i \in DOMAIN markerGroup :
       LET e == markerGroup[i]
           c == ProbeOf(e)
       IN  /\ c = SW => (e.cx = 0 /\ e.cy = MAP_HEIGHT * 1000)
           /\ c = SE => (e.cx = MAP_WIDTH * 1000 /\ e.cy = MAP_HEIGHT * 1000)
           /\ c = NW => (e.cx = 0 /\ e.cy = 0)
           /\ c = NE => (e.cx = MAP_WIDTH * 1000 /\ e.cy = 0)
           /\ c = Mid => /\ e.cx = (MAP_WIDTH * 1000) \div 2
                         /\ (e.cy - 2 * ((MAP_HEIGHT * 1000) \div 3)) \in 0..2
           /\ c = Quarter => /\ e.cx = (MAP_WIDTH * 1000) \div 4
                             /\ (e.cy - (MAP_HEIGHT * 1000) \div 3) \in 0..2
           /\ c = Outside => (e.cx = 2 * MAP_WIDTH * 1000 /\ e.cy = 2 * MAP_HEIGHT * 1000)
  /\ \A i, j \in DOMAIN markerGroup :
       LET a == markerGroup[i]
           b == markerGroup[j]
       IN  /\ ProbeOf(a).lon < ProbeOf(b).lon => a.cx < b.cx
           /\ ProbeOf(a).lat < ProbeOf(b).lat => a.cy > b.cy

\* the four corners and the three other points are all drawn
C15_Witness ==
  /\ Len(markerGroup) = 7
  /\ {markerGroup[i].name : i \in DOMAIN markerGroup} = {c.name : c \in Probes}

(***************************************************************************)
(* overlap on boxes of any non-negative size: a first box is recorded, a   *)
(* second one is tested against it as line 207 does and recorded with the  *)
(* verdict (found is the negation of doOverlap).                           *)
(***************************************************************************)
Rects ==
  [x : 0..MaxCoord, y : 0..MaxCoord, width : 0..MaxCoord, height : 0..MaxCoord]

GeomInit == ProjInit

\* lines 207-216 for one box
PushBox ==
  /\ Len(markerGroup) < 2
  /\ \E b \in Rects :
       markerGroup' = Append(markerGroup,
         [bbox |-> b,
          found |-> ~(\E i \in DOMAIN markerGroup : overlap(markerGroup[i].bbox, b))])
  /\ UNCHANGED <<svgDoc, markedCities, cityList, url, loadState>>

GeomNext == PushBox

GeomSpec == GeomInit /\ [][GeomNext]_vars

\* a and b meet along a side or at a corner only
Touching(a, b) ==
  \/ a.x + a.width = b.x
  \/ b.x + b.width = a.x
  \/ a.y + a.height = b.y
  \/ b.y + b.height = a.y

\* C19: overlap gives the same verdict with its arguments exchanged; boxes
\* that share only a side or a corner do not overlap; the verdict is that on
\* both axes each box begins strictly before the other ends, for all widths
\* and heights from zero on, and for boxes of positive size that is having an
\* inner point in common.
C19_OverlapStrictSymmetric ==
  Len(markerGroup) = 2 =>
    LET a == markerGroup[1].bbox
        b == markerGroup[2].bbox
        hit == ~markerGroup[2].found
    IN  /\ hit = overlap(b, a)
        /\ Touching(a, b) => ~hit
        /\ hit <=> (/\ a.x < b.x + b.width /\ b.x < a.x + a.width
                    /\ a.y < b.y + b.height /\ b.y < a.y + a.height)
        /\ (a.width > 0 /\ a.height > 0 /\ b.width > 0 /\ b.height > 0)
             => (hit <=> Intersects(a, b))

\* two boxes of positive size side by side, found not to overlap
C19_Witness ==
  /\ Len(markerGroup) = 2
  /\ markerGroup[1].bbox.width > 0 /\ markerGroup[1].bbox.height > 0
  /\ markerGroup[2].bbox.width > 0 /\ markerGroup[2].bbox.height > 0
  /\ markerGroup[1].bbox.x + markerGroup[1].bbox.width = markerGroup[2].bbox.x
  /\ markerGroup[1].bbox.y = markerGroup[2].bbox.y
  /\ markerGroup[2].found

====
